---- MODULE Spec2Model ----
(***************************************************************************)
(* A model of dy-sql's query assembler (dysql/query_utils.py) and of its   *)
(* record combining mapper.                                                *)
(*                                                                         *)
(* Python strings are sequences of one-character strings, so that the      *)
(* regular expression scan, str.replace, str.strip, str.split and the      *)
(* formatting of binding names are computed the way the code computes      *)
(* them.  get_query_data is a state machine: one step per iteration of     *)
(* each of its two loops.                                                  *)
(***************************************************************************)
EXTENDS Integers, Sequences, FiniteSets, TLC

VARIABLES data, matches, pc, idx, query, validated_keys, params, exc, calls,
          rows, m_pc, m_idx, lookup, results

vars == <<data, matches, pc, idx, query, validated_keys, params, exc, calls,
          rows, m_pc, m_idx, lookup, results>>

qvars == <<data, matches, pc, idx, query, validated_keys, params, exc, calls>>
mvars == <<rows, m_pc, m_idx, lookup, results>>

-----------------------------------------------------------------------------
(* Bounds of the checked inputs.                                           *)

\* the most spaces written on either side of a placeholder
MaxSp == 1
\* the most elements in a template value
MaxLen == 2
\* the most raw rows handed to map_records
MaxRows == 3

-----------------------------------------------------------------------------
(* Strings.                                                                *)

Range(s) == { s[i] : i \in DOMAIN s }

RECURSIVE Join(_, _)
\* sep.join(parts)
Join(sep, parts) ==
    IF parts = <<>> THEN <<>>
    ELSE IF Len(parts) = 1 THEN parts[1]
    ELSE parts[1] \o sep \o Join(sep, Tail(parts))

StartsWith(s, prefix) ==
    /\ Len(s) >= Len(prefix)
    /\ SubSeq(s, 1, Len(prefix)) = prefix

\* whether old occurs in s at position p
OccursAt(s, old, p) ==
    /\ p + Len(old) - 1 <= Len(s)
    /\ SubSeq(s, p, p + Len(old) - 1) = old

Contains(s, sub) == \E p \in 1..(Len(s) + 1) : OccursAt(s, sub, p)

RECURSIVE Replace(_, _, _)
\* s.replace(old, new), old not empty: every occurrence, leftmost first,
\* not overlapping
Replace(s, old, new) ==
    IF Len(s) < Len(old) THEN s
    ELSE IF OccursAt(s, old, 1)
         THEN new \o Replace(SubSeq(s, Len(old) + 1, Len(s)), old, new)
         ELSE <<s[1]>> \o Replace(Tail(s), old, new)

RECURSIVE LStrip(_)
LStrip(s) == IF s # <<>> /\ s[1] = " " THEN LStrip(Tail(s)) ELSE s

RECURSIVE RStrip(_)
RStrip(s) ==
    IF s # <<>> /\ s[Len(s)] = " " THEN RStrip(SubSeq(s, 1, Len(s) - 1)) ELSE s

\* s.strip()
Strip(s) == RStrip(LStrip(s))

RECURSIVE SplitFrom(_, _, _)
SplitFrom(s, sep, cur) ==
    IF s = <<>> THEN <<cur>>
    ELSE IF OccursAt(s, sep, 1)
         THEN <<cur>> \o SplitFrom(SubSeq(s, Len(sep) + 1, Len(s)), sep, <<>>)
         ELSE SplitFrom(Tail(s), sep, Append(cur, s[1]))

\* s.split(sep)
Split(s, sep) == SplitFrom(s, sep, <<>>)

Digits == <<"0", "1", "2", "3", "4", "5", "6", "7", "8", "9">>

RECURSIVE str(_)
\* str(index) of a natural number
str(n) == IF n < 10 THEN <<Digits[n + 1]>>
          ELSE str(n \div 10) \o <<Digits[(n % 10) + 1]>>

\* '{}_{}'.format(a, b)
Fmt_(a, b) == a \o <<"_">> \o b

RECURSIVE Spaces(_)
Spaces(n) == IF n = 0 THEN <<>> ELSE <<" ">> \o Spaces(n - 1)

\* [A-Za-z_]
IdentChars ==
    { "a", "b", "c", "d", "e", "f", "g", "h", "i", "j", "k", "l", "m",
      "n", "o", "p", "q", "r", "s", "t", "u", "v", "w", "x", "y", "z",
      "A", "B", "C", "D", "E", "F", "G", "H", "I", "J", "K", "L", "M",
      "N", "O", "P", "Q", "R", "S", "T", "U", "V", "W", "X", "Y", "Z",
      "_" }

kw_in == <<"i", "n">>
kw_not_in == <<"n", "o", "t", "_", "i", "n">>
kw_values == <<"v", "a", "l", "u", "e", "s">>
DUNDER == <<"_", "_">>

-----------------------------------------------------------------------------
(* Mappings (dict).                                                        *)

EmptyMap == [n \in {} |-> 0]

\* a.update(b)
Update(a, b) ==
    [n \in (DOMAIN a) \cup (DOMAIN b) |-> IF n \in DOMAIN b THEN b[n] ELSE a[n]]

-----------------------------------------------------------------------------
(* Values.  An element of a template value is a scalar or a tuple of       *)
(* scalars; a binding's value is such an element.                          *)

Scalar(v) == [isTuple |-> FALSE, v |-> <<v>>]
Tuple(vs) == [isTuple |-> TRUE, v |-> vs]

-----------------------------------------------------------------------------
(* class Templates                                                         *)

RECURSIVE InnerEnumerate(_, _, _)
\* the loop of _parameterize_inner_list over enumerate(values), from index
InnerEnumerate(key, values, index) ==
    IF index >= Len(values) THEN [keys |-> <<>>, param_values |-> EmptyMap]
    ELSE LET parameterized_key ==
                 Fmt_(Replace(key, <<".">>, <<"_">>), str(index))
             rest == InnerEnumerate(key, values, index + 1)
         IN  [keys |-> <<parameterized_key>> \o rest.keys,
              param_values |->
                  Update((parameterized_key :> values[index + 1]),
                         rest.param_values)]

\* isSeq: isinstance(values, (list, tuple)); values: its elements, or the one
\* value that is no list
_parameterize_inner_list(key, isSeq, values) ==
    LET r == IF ~isSeq
             THEN [keys |-> <<key>>, param_values |-> (key :> values[1])]
             ELSE InnerEnumerate(key, values, 0)
    IN  [keys |-> <<"(", " ", ":">> \o Join(<<",", " ", ":">>, r.keys)
                    \o <<" ", ")">>,
         values |-> r.param_values]

\* what _parameterize_inner_list sees of one element of the list
ElementIsSeq(value) == value.isTuple
ElementValues(value) ==
    IF value.isTuple THEN [j \in 1..Len(value.v) |-> Scalar(value.v[j])]
    ELSE <<value>>

RECURSIVE ListEnumerate(_, _, _, _, _)
\* the loop of _parameterize_list over enumerate(values), from index
ListEnumerate(key, values, index, param_inner_keys, param_values) ==
    IF index >= Len(values)
    THEN [keys |-> Join(<<",", " ">>, param_inner_keys), values |-> param_values]
    ELSE LET value == values[index + 1] IN
         IF value.isTuple \/ StartsWith(key, kw_values)
         THEN LET inner == _parameterize_inner_list(
                               Fmt_(key, str(index)),
                               ElementIsSeq(value), ElementValues(value))
              IN  ListEnumerate(key, values, index + 1,
                                Append(param_inner_keys, inner.keys),
                                Update(param_values, inner.values))
         ELSE _parameterize_inner_list(key, TRUE, values)

_parameterize_list(key, values) == ListEnumerate(key, values, 0, <<>>, EmptyMap)

S_IN == <<" ", "I", "N", " ">>
S_NOT_IN == <<" ", "N", "O", "T", " ", "I", "N", " ">>
S_VALUES == <<"V", "A", "L", "U", "E", "S", " ">>
S_FALSE == <<"1", " ", "<", ">", " ", "1">>
S_TRUE == <<"1", " ", "=", " ", "1">>

\* a handler's outcome: raised, or the pair (query, params) with params
\* None when isNone
Returned(q, p) == [raised |-> FALSE, query |-> q, isNone |-> FALSE, params |-> p]
ReturnedNone(q) == [raised |-> FALSE, query |-> q, isNone |-> TRUE, params |-> EmptyMap]
Raised(type, text, keys) == [type |-> type, text |-> text, keys |-> keys]
HandlerRaised(e) ==
    [raised |-> TRUE, query |-> <<>>, isNone |-> TRUE, params |-> EmptyMap, exc |-> e]

\* in_column naming the bindings after the column, not after legacy_key
in_column_by_name(name, values, legacy_key) ==
    IF values = <<>> THEN ReturnedNone(S_FALSE)
    ELSE LET r == _parameterize_list(name, values)
         IN  Returned(name \o S_IN \o r.keys, r.values)

in_column(name, values, legacy_key) ==
    IF values = <<>> THEN ReturnedNone(S_FALSE)
    ELSE LET key_name == IF legacy_key # <<>> THEN legacy_key ELSE name
             r == _parameterize_list(key_name, values)
         IN  Returned(name \o S_IN \o r.keys, r.values)

\* not_in_column with the sentinel of in_column
not_in_column_false_sentinel(name, values, legacy_key) ==
    IF values = <<>> THEN ReturnedNone(S_FALSE)
    ELSE LET key_name == IF legacy_key # <<>> THEN legacy_key ELSE name
             r == _parameterize_list(key_name, values)
         IN  Returned(name \o S_NOT_IN \o r.keys, r.values)

not_in_column(name, values, legacy_key) ==
    IF values = <<>> THEN ReturnedNone(S_TRUE)
    ELSE LET key_name == IF legacy_key # <<>> THEN legacy_key ELSE name
             r == _parameterize_list(key_name, values)
         IN  Returned(name \o S_NOT_IN \o r.keys, r.values)

values(name, vals, legacy_key) ==
    IF vals = <<>>
    THEN HandlerRaised(Raised("ListTemplateException",
                              "Must have values for {} template", <<name>>))
    ELSE LET key_name == IF legacy_key # <<>> THEN legacy_key ELSE name
             r == _parameterize_list(key_name, vals)
         IN  Returned(S_VALUES \o r.keys, r.values)

\* the handler get_template(name) returns, applied
get_template(name, column, vals, legacy_key) ==
    IF name = kw_in THEN in_column(column, vals, legacy_key)
    ELSE IF name = kw_not_in THEN not_in_column(column, vals, legacy_key)
    ELSE values(column, vals, legacy_key)

-----------------------------------------------------------------------------
(* LIST_TEMPLATE_REGEX and re.findall                                      *)

RECURSIVE CountSpaces(_, _)
\* the length of the run of spaces of s that starts at p
CountSpaces(s, p) ==
    IF p <= Len(s) /\ s[p] = " " THEN 1 + CountSpaces(s, p + 1) ELSE 0

RECURSIVE IdentRun(_, _)
\* the length of the run of [A-Za-z_] of s that starts at p
IdentRun(s, p) ==
    IF p <= Len(s) /\ s[p] \in IdentChars THEN 1 + IdentRun(s, p + 1) ELSE 0

NoMatch == [ok |-> FALSE, end |-> 0, g0 |-> <<>>, g1 |-> <<>>, keyword |-> <<>>,
            table |-> <<>>, column |-> <<>>, g5 |-> <<>>]

\* the match of ( +)?{(in|not_in|values)__([A-Za-z_]+\.)?([A-Za-z_]+)}( +)?
\* that starts at position p of s, with its groups
MatchAt(s, p) ==
    LET n1 == CountSpaces(s, p)
        b == p + n1
        kws == { k \in {kw_in, kw_not_in, kw_values} :
                     OccursAt(s, <<"{">> \o k \o DUNDER, b) }
    IN  IF kws = {} THEN NoMatch
        ELSE
        LET kw == CHOOSE k \in kws : TRUE
            q == b + 1 + Len(kw) + 2
            r1 == IdentRun(s, q)
            dotted == r1 > 0 /\ q + r1 <= Len(s) /\ s[q + r1] = "."
            c == IF dotted THEN q + r1 + 1 ELSE q
            r2 == IF dotted THEN IdentRun(s, c) ELSE r1
            e == c + r2
        IN  IF r2 = 0 \/ e > Len(s) \/ s[e] # "}" THEN NoMatch
            ELSE LET n5 == CountSpaces(s, e + 1) IN
                 [ok |-> TRUE, end |-> e + n5,
                  g0 |-> SubSeq(s, p, e + n5),
                  g1 |-> SubSeq(s, p, b - 1),
                  keyword |-> kw,
                  table |-> IF dotted THEN SubSeq(s, q, q + r1) ELSE <<>>,
                  column |-> SubSeq(s, c, e - 1),
                  g5 |-> SubSeq(s, e + 1, e + n5)]

RECURSIVE FindAllFrom(_, _)
FindAllFrom(s, p) ==
    IF p > Len(s) THEN <<>>
    ELSE LET m == MatchAt(s, p) IN
         IF m.ok THEN <<m>> \o FindAllFrom(s, m.end + 1)
         ELSE FindAllFrom(s, p + 1)

\* re.findall(LIST_TEMPLATE_REGEX, query): the matches left to right, not
\* overlapping
LIST_TEMPLATE_REGEX_findall(s) == FindAllFrom(s, 1)

\* '{keyword}__{table}{column}'.format(...)
KeyOf(groups) == groups.keyword \o DUNDER \o groups.table \o groups.column

-----------------------------------------------------------------------------
(* The inputs: QueryData(query, query_params, template_params).  data is   *)
(* always a QueryData instance (the isinstance test of                     *)
(* __validate_query_and_params passes), query_params a single mapping.     *)

Key(keyword, table, column) ==
    [keyword |-> keyword, table |-> table, column |-> column]

\* {in__x}, {not_in__x}, {values__x}, {in__t.c}, {in__t_c}, {in__a__b}
PlaceholderKeys ==
    { Key(kw_in, <<>>, <<"x">>),
      Key(kw_not_in, <<>>, <<"x">>),
      Key(kw_values, <<>>, <<"x">>),
      Key(kw_in, <<"t", ".">>, <<"c">>),
      Key(kw_in, <<>>, <<"t", "_", "c">>),
      Key(kw_in, <<>>, <<"a", "_", "_", "b">>) }

\* a placeholder token with its surrounding spaces
Slot(k, lead, trail) ==
    Spaces(lead) \o <<"{">> \o KeyOf(k) \o <<"}">> \o Spaces(trail)

\* flat lists of scalars (the empty list among them) and lists of 2-tuples
TemplateValues ==
    { [i \in 1..n |-> Scalar(i)] : n \in 0..MaxLen }
    \cup { [i \in 1..n |-> Tuple(<<10 * i + 1, 10 * i + 2>>)] : n \in 1..MaxLen }

\* no direct parameters, or two of them, one under a name that a placeholder
\* expansion also generates
QueryParams ==
    { EmptyMap,
      (<<"i", "n", "_", "_", "x", "_", "0">> :> Scalar(99))
          @@ (<<"y">> :> Scalar(98)) }

\* the keys written as a second placeholder: {in__x}, {values__x}, {in__t_c}
SecondKeys ==
    { Key(kw_in, <<>>, <<"x">>),
      Key(kw_values, <<>>, <<"x">>),
      Key(kw_in, <<>>, <<"t", "_", "c">>) }

\* query texts: a placeholder between the letters a and b with up to MaxSp
\* spaces on either side, and possibly a second one between b and c, written
\* with no space or with one space on both sides
Queries ==
    { <<"a">> \o Slot(k, l, t) \o <<"b">> :
          k \in PlaceholderKeys, l \in 0..MaxSp, t \in 0..MaxSp }
    \cup
    { <<"a">> \o Slot(k1, l1, t1) \o <<"b">> \o Slot(k2, sp, sp) \o <<"c">> :
          k1 \in PlaceholderKeys, l1 \in 0..MaxSp, t1 \in 0..MaxSp,
          k2 \in SecondKeys, sp \in {0, 1} }

KeysIn(q) == { KeyOf(m) : m \in Range(LIST_TEMPLATE_REGEX_findall(q)) }

\* template_params: None, or a dict giving values to some of the keys
TemplateParams(q) ==
    { [isNone |-> TRUE, map |-> EmptyMap] }
    \cup { [isNone |-> FALSE, map |-> f] :
               f \in UNION { [present -> TemplateValues] :
                                 present \in SUBSET KeysIn(q) } }

MapperIdle ==
    /\ rows = <<>>
    /\ m_pc = "idle"
    /\ m_idx = 0
    /\ lookup = <<>>
    /\ results = <<>>

Init ==
    /\ \E q \in Queries :
         \E tp \in TemplateParams(q) :
           \E qp \in QueryParams :
             data = [query |-> q, query_params |-> qp, template_params |-> tp]
    /\ matches = LIST_TEMPLATE_REGEX_findall(data.query)
    /\ pc = "validate"
    /\ idx = 0
    /\ query = data.query
    /\ validated_keys = <<>>
    /\ params = EmptyMap
    /\ exc = Raised("", "", <<>>)
    /\ calls = <<>>
    /\ MapperIdle

-----------------------------------------------------------------------------
(* get_query_data                                                          *)

\* template_params.get(key) is None
TemplateMissing(template_params, key) ==
    \/ template_params.isNone
    \/ key \notin DOMAIN template_params.map

\* the keys one iteration of the validation loop finds missing
missing_keys(template_params, key) ==
    IF TemplateMissing(template_params, key) THEN <<key>>
    ELSE IF key = kw_values /\ Len(template_params.map[key]) = 0 THEN <<key>>
    ELSE <<>>

\* one iteration of the loop of __validate_keys_clean_query
ValidateKey ==
    /\ pc = "validate"
    /\ idx < Len(matches)
    /\ LET groups == matches[idx + 1]
           key == KeyOf(groups)
           missing == missing_keys(data.template_params, key)
       IN  /\ validated_keys' = Append(validated_keys, key)
           /\ IF Len(missing) > 0
              THEN /\ pc' = "raised"
                   /\ exc' = Raised("ListTemplateException",
                                    "Missing template keys {}", missing)
                   /\ UNCHANGED <<query, idx>>
              ELSE /\ query' = Replace(query, groups.g0, Strip(groups.g0))
                   /\ idx' = idx + 1
                   /\ UNCHANGED <<pc, exc>>
    /\ UNCHANGED <<data, matches, params, calls, mvars>>

\* __validate_keys_clean_query returns; params.update(data.query_params)
MergeQueryParams ==
    /\ pc = "validate"
    /\ idx = Len(matches)
    /\ params' = IF data.query_params # EmptyMap
                 THEN Update(params, data.query_params) ELSE params
    /\ pc' = "expand"
    /\ idx' = 0
    /\ UNCHANGED <<data, matches, query, validated_keys, exc, calls, mvars>>

\* one iteration of the loop of get_query_data over validated_keys
ExpandKey ==
    /\ pc = "expand"
    /\ idx < Len(validated_keys)
    /\ LET key == validated_keys[idx + 1]
           parts == Split(key, DUNDER)
       IN  IF Len(parts) # 2
           THEN /\ pc' = "raised"
                /\ exc' = Raised("ValueError", "unpack", <<key>>)
                /\ UNCHANGED <<idx, query, params, calls>>
           ELSE
           LET list_template_key == parts[1]
               column_name == parts[2]
               r == get_template(list_template_key, column_name,
                                 data.template_params.map[key], key)
               query_key == <<"{">> \o key \o <<"}">>
           IN  /\ calls' = Append(calls,
                       [template |-> list_template_key, name |-> column_name,
                        values |-> data.template_params.map[key],
                        legacy_key |-> key, result |-> r])
               /\ IF r.raised
                  THEN /\ pc' = "raised"
                       /\ exc' = r.exc
                       /\ UNCHANGED <<idx, query, params>>
                  ELSE /\ params' = IF ~r.isNone /\ r.params # EmptyMap
                                    THEN Update(params, r.params) ELSE params
                       /\ query' = Replace(query, query_key,
                                           <<" ">> \o r.query \o <<" ">>)
                       /\ idx' = idx + 1
                       /\ UNCHANGED <<pc, exc>>
    /\ UNCHANGED <<data, matches, validated_keys, mvars>>

\* return query, params
Return ==
    /\ pc = "expand"
    /\ idx = Len(validated_keys)
    /\ pc' = "done"
    /\ UNCHANGED <<data, matches, idx, query, validated_keys, params, exc, calls, mvars>>

Next == ValidateKey \/ MergeQueryParams \/ ExpandKey \/ Return

Spec == Init /\ [][Next]_vars

-----------------------------------------------------------------------------
(* RecordCombiningMapper.map_records.  A raw row maps column names to      *)
(* values; a column a row does not carry contributes nothing.  The schema   *)
(* has the identity field id, the list field list1, the set field set1,     *)
(* the dict field dict1 (keys from column key1, values from column val1)    *)
(* and the CSV-list field csv1.  The mapper is modelled from its design     *)
(* description and from the rows and results of test_pydantic_mappers.py.   *)

Row(id, list1, set1, key1, val1, csv1) ==
    [id |-> id, list1 |-> list1, set1 |-> set1, key1 |-> key1, val1 |-> val1,
     csv1 |-> csv1]

\* the value of a column the row does not carry
Absent == <<>>

\* raw rows: a column's value is a sequence holding the value, or Absent;
\* csv1 holds the text of a comma separated list
RowPool ==
    { Row(1, <<"val1">>, <<"val2">>, <<"k1">>, <<"v1">>, <<"a", ",", "b">>),
      Row(2, <<"val1">>, Absent, Absent, Absent, Absent),
      Row(1, <<"val3">>, <<"val4">>, <<"k2">>, <<"v2">>, <<"c", ",", "d">>),
      Row(1, <<"val1">>, <<"val2">>, <<"k1">>, <<"v9">>, <<"a", ",", "b">>),
      Row(2, Absent, <<"val2">>, <<"k1">>, <<"v3">>, <<"b">>),
      Row(3, <<"val3">>, <<"val4">>, Absent, Absent, Absent) }

RECURSIVE SeqsUpTo(_, _)
\* the sequences over S of length at most n
SeqsUpTo(S, n) ==
    IF n = 0 THEN { <<>> }
    ELSE LET shorter == SeqsUpTo(S, n - 1)
         IN  shorter \cup { Append(q, x) : q \in { t \in shorter : Len(t) = n - 1 }, x \in S }

\* a record as first built from a row: the scalar fields, and every
\* directive field empty
NewRecord(row) ==
    [id |-> row.id, list1 |-> <<>>, set1 |-> {}, dict1 |-> EmptyMap, csv1 |-> <<>>]

\* FoldRow adding to the lists only what they do not hold yet
FoldRow_dedup(rec, row) ==
    LET fresh(old, new) == SelectSeq(new, LAMBDA x : x \notin Range(old))
    IN  [id |-> rec.id,
         csv1 |-> IF row.csv1 = Absent THEN rec.csv1
                  ELSE rec.csv1 \o fresh(rec.csv1, Split(row.csv1, <<",">>)),
         list1 |-> rec.list1 \o fresh(rec.list1, row.list1),
         set1 |-> rec.set1 \cup Range(row.set1),
         dict1 |-> IF row.key1 = Absent THEN rec.dict1
                   ELSE Update(rec.dict1, (row.key1[1] :> row.val1[1]))]

\* one row folded into a record
FoldRow(rec, row) ==
    [id |-> rec.id,
     csv1 |-> IF row.csv1 = Absent THEN rec.csv1
              ELSE rec.csv1 \o Split(row.csv1, <<",">>),
     list1 |-> rec.list1 \o row.list1,
     set1 |-> rec.set1 \cup Range(row.set1),
     dict1 |-> IF row.key1 = Absent THEN rec.dict1
               ELSE Update(rec.dict1, (row.key1[1] :> row.val1[1]))]

\* the position in lookup of the record of an identity, 0 when it has none
Position(lk, id) ==
    IF \E i \in DOMAIN lk : lk[i].id = id
    THEN CHOOSE i \in DOMAIN lk : lk[i].id = id
    ELSE 0

\* Combine looking only at the last record, as if the rows of an identity
\* were contiguous
Combine_contiguous(lk, row) ==
    IF lk # <<>> /\ lk[Len(lk)].id = row.id
    THEN [lk EXCEPT ![Len(lk)] = FoldRow(lk[Len(lk)], row)]
    ELSE Append(lk, FoldRow(NewRecord(row), row))

\* the records so far, in the order their identities were first seen, with
\* row folded into the record of its identity
Combine(lk, row) ==
    LET at == Position(lk, row.id)
    IN  IF at = 0 THEN Append(lk, FoldRow(NewRecord(row), row))
        ELSE [lk EXCEPT ![at] = FoldRow(lk[at], row)]

AssemblerIdle ==
    /\ data = [query |-> <<>>, query_params |-> EmptyMap,
               template_params |-> [isNone |-> TRUE, map |-> EmptyMap]]
    /\ matches = <<>>
    /\ pc = "idle"
    /\ idx = 0
    /\ query = <<>>
    /\ validated_keys = <<>>
    /\ params = EmptyMap
    /\ exc = Raised("", "", <<>>)
    /\ calls = <<>>

MapInit ==
    /\ rows \in SeqsUpTo(RowPool, MaxRows)
    /\ m_pc = "fold"
    /\ m_idx = 0
    /\ lookup = <<>>
    /\ results = <<>>
    /\ AssemblerIdle

\* one row of map_records
MapRow ==
    /\ m_pc = "fold"
    /\ m_idx < Len(rows)
    /\ lookup' = Combine(lookup, rows[m_idx + 1])
    /\ m_idx' = m_idx + 1
    /\ UNCHANGED <<rows, m_pc, results, qvars>>

\* map_records returns the records
MapReturn ==
    /\ m_pc = "fold"
    /\ m_idx = Len(rows)
    /\ results' = lookup
    /\ m_pc' = "done"
    /\ UNCHANGED <<rows, m_idx, lookup, qvars>>

MapNext == MapRow \/ MapReturn

SpecMap == MapInit /\ [][MapNext]_vars

-----------------------------------------------------------------------------
(* Properties of get_query_data.                                           *)

TP == data.template_params

\* the keys the query references
Referenced == { KeyOf(m) : m \in Range(matches) }

\* the referenced keys that template_params does not hold
MissingReferenced == { k \in Referenced : TemplateMissing(TP, k) }

MISSING_TEXT == "Missing template keys {}"

\* '{' + key + '}'
TokenOf(key) == <<"{">> \o key \o <<"}">>

\* a non-empty list of scalars only
IsFlat(vs) == vs # <<>> /\ \A i \in DOMAIN vs : ~vs[i].isTuple
\* a non-empty list of tuples only
IsTuples(vs) == vs # <<>> /\ \A i \in DOMAIN vs : vs[i].isTuple

\* the names base_0 .. base_(n-1)
Indexed(base, n) == [i \in 1..n |-> base \o <<"_">> \o str(i - 1)]

\* ( :n_1, :n_2, ... )
Group(names) ==
    <<"(", " ", ":">> \o Join(<<",", " ", ":">>, names) \o <<" ", ")">>

\* C1: when every key the query references is missing and there are at least
\* two of them, get_query_data fails with one ListTemplateException that
\* names every one of them.
C1_EveryMissingKeyNamed ==
    (/\ pc = "raised"
     /\ Cardinality(Referenced) >= 2
     /\ MissingReferenced = Referenced)
    => /\ exc.type = "ListTemplateException"
       /\ Referenced \subseteq Range(exc.keys)

\* the number of bindings a template value asks for: one per scalar, one per
\* tuple position
SlotCount(vs) ==
    LET n[i \in 0..Len(vs)] ==
            IF i = 0 THEN 0
            ELSE n[i - 1] + (IF vs[i].isTuple THEN Len(vs[i].v) ELSE 1)
    IN  n[Len(vs)]

\* C2: the binding names generated within one call are pairwise distinct:
\* each expansion generates as many names as its value has slots, and the
\* expansions of two different keys generate no name in common.
C2_BindingNamesDistinct ==
    \A i, j \in DOMAIN calls :
        (~calls[i].result.raised /\ ~calls[j].result.raised) =>
            /\ Cardinality(DOMAIN calls[i].result.params) = SlotCount(calls[i].values)
            /\ calls[i].legacy_key # calls[j].legacy_key =>
                   (DOMAIN calls[i].result.params)
                       \cap (DOMAIN calls[j].result.params) = {}

\* the query's only placeholder key is {in__c}, its value a non-empty flat
\* list, and no query_params are given
SoleFlatIn(c) ==
    /\ Referenced = { kw_in \o DUNDER \o c }
    /\ ~TemplateMissing(TP, kw_in \o DUNDER \o c)
    /\ IsFlat(TP.map[kw_in \o DUNDER \o c])
    /\ data.query_params = EmptyMap

FlatColumns == { k.column : k \in { p \in PlaceholderKeys :
                                        p.keyword = kw_in /\ p.table = <<>> } }

NoDunder(c) == ~Contains(c, DUNDER)

\* the result the claim describes, with the bindings named base_i
FlatInResult(c, base) ==
    LET vs == TP.map[kw_in \o DUNDER \o c]
        names == Indexed(base, Len(vs))
    IN  /\ Contains(query, c \o S_IN \o Group(names))
        /\ DOMAIN params = Range(names)
        /\ \A i \in DOMAIN vs : params[names[i]] = vs[i]

\* C3, as stated: the bindings of {in__c} are named c_0 .. c_(n-1).
C3_ColumnIndexedNames ==
    \A c \in FlatColumns :
        (pc = "done" /\ SoleFlatIn(c)) => FlatInResult(c, c)

\* C3, amended: for a column c without a double underscore the call returns,
\* and the bindings of {in__c} are named in__c_0 .. in__c_(n-1): the SQL
\* holds c IN ( :in__c_0, ..., :in__c_(n-1) ) and the parameters are exactly
\* in__c_i -> v_i.
C3_KeyIndexedNames ==
    \A c \in FlatColumns :
        (SoleFlatIn(c) /\ NoDunder(c)) =>
            /\ pc # "raised"
            /\ pc = "done" => FlatInResult(c, kw_in \o DUNDER \o c)

C3_Witness ==
    /\ pc = "done"
    /\ SoleFlatIn(<<"x">>)
    /\ Len(TP.map[kw_in \o DUNDER \o <<"x">>]) = MaxLen
    /\ Len(matches) = 2

\* C4: a name given in query_params keeps its query_params value in the
\* returned parameters.
C4_QueryParamsPrecedence ==
    pc = "done" =>
        \A n \in DOMAIN data.query_params : params[n] = data.query_params[n]

\* the calls of a handler with the empty list
EmptyCalls(template) ==
    { i \in DOMAIN calls : calls[i].template = template /\ calls[i].values = <<>> }

\* C5: with the empty list, in_column returns 1 <> 1 and not_in_column
\* returns 1 = 1, both without bindings, and values raises
\* ListTemplateException; validation accepts an empty in / not_in value, the
\* placeholder is replaced by the sentinel and no binding is added.
C5_EmptyInputPolicy ==
    /\ \A i \in EmptyCalls(kw_in) : calls[i].result = ReturnedNone(S_FALSE)
    /\ \A i \in EmptyCalls(kw_not_in) : calls[i].result = ReturnedNone(S_TRUE)
    /\ \A i \in EmptyCalls(kw_values) :
           /\ calls[i].result.raised
           /\ calls[i].result.exc.type = "ListTemplateException"
    /\ \A k \in Referenced \ MissingReferenced :
           (TP.map[k] = <<>> /\ exc.text = MISSING_TEXT) => k \notin Range(exc.keys)
    /\ \A i \in EmptyCalls(kw_in) \cup EmptyCalls(kw_not_in) :
           /\ ~Contains(query, TokenOf(calls[i].legacy_key))
           /\ Contains(query, <<" ">> \o (IF calls[i].template = kw_in
                                          THEN S_FALSE ELSE S_TRUE) \o <<" ">>)
    /\ (pc = "done" /\ \A i \in DOMAIN calls : calls[i].values = <<>>)
           => params = data.query_params

C5_Witness ==
    /\ pc = "done"
    /\ EmptyCalls(kw_in) # {}
    /\ EmptyCalls(kw_not_in) # {}

\* the fragment a placeholder is rendered to
Rendered(m) ==
    get_template(m.keyword, m.table \o m.column, TP.map[KeyOf(m)], KeyOf(m)).query

RECURSIVE Rebuild(_, _, _)
\* s from position pos on, with each match replaced, surrounding spaces
\* included, by its rendered fragment between two single spaces
Rebuild(s, ms, pos) ==
    IF ms = <<>> THEN SubSeq(s, pos, Len(s))
    ELSE LET m == Head(ms) IN
         SubSeq(s, pos, m.end - Len(m.g0))
             \o <<" ">> \o Rendered(m) \o <<" ">>
             \o Rebuild(s, Tail(ms), m.end + 1)

\* C6: in the returned SQL every placeholder occurrence, with the spaces
\* around it, is replaced by its fragment with exactly one space before and
\* one after it.
C6_SpacingNormalised ==
    pc = "done" => query = Rebuild(data.query, matches, 1)

\* the parenthesised groups of a list of tuples under a base key
TupleGroups(key, vs) ==
    [i \in DOMAIN vs |->
        Group(Indexed(Fmt_(Replace(key, <<".">>, <<"_">>), str(i - 1)),
                      Len(vs[i].v)))]

\* C9: for a list of tuples the in and not_in handlers render
\* c IN ( g_0, ..., g_(m-1) ): the groups joined with ", " inside one
\* enclosing parenthesis pair.
C9_TuplesWrappedOnce ==
    \A i \in DOMAIN calls :
        (calls[i].template \in {kw_in, kw_not_in} /\ IsTuples(calls[i].values)) =>
            calls[i].result.query =
                calls[i].name
                    \o (IF calls[i].template = kw_in THEN S_IN ELSE S_NOT_IN)
                    \o <<"(", " ">>
                    \o Join(<<",", " ">>,
                            TupleGroups(calls[i].legacy_key, calls[i].values))
                    \o <<" ", ")">>

\* the referenced values keys whose value is present and empty
EmptyValuesKeys ==
    { k \in Referenced \ MissingReferenced :
          StartsWith(k, kw_values \o DUNDER) /\ TP.map[k] = <<>> }

\* C10: a query with a {values__c} placeholder whose value is present and
\* empty (and no missing key) fails in key validation: no handler is ever
\* invoked, nothing is substituted, and the exception lists values__c.
C10_EmptyValuesRejectedByValidation ==
    (EmptyValuesKeys # {} /\ MissingReferenced = {}) =>
        /\ calls = <<>>
        /\ pc # "done"
        /\ pc = "raised" => /\ exc.text = MISSING_TEXT
                            /\ EmptyValuesKeys \subseteq Range(exc.keys)

-----------------------------------------------------------------------------
(* Properties of RecordCombiningMapper.map_records.                        *)

RECURSIVE Flatten(_)
Flatten(seqs) == IF seqs = <<>> THEN <<>> ELSE Head(seqs) \o Flatten(Tail(seqs))

\* the rows of an identity, in row order
RowsOf(id) == SelectSeq(rows, LAMBDA r : r.id = id)

\* the last value written under key k by the rows of part
LastWritten(part, k) ==
    LET at == { i \in DOMAIN part : part[i].key1 = <<k>> }
        last == CHOOSE i \in at : \A j \in at : j <= i
    IN  part[last].val1[1]

\* the position of the first row of an identity
FirstSeen(id) ==
    CHOOSE i \in DOMAIN rows :
        rows[i].id = id /\ \A j \in DOMAIN rows : rows[j].id = id => i <= j

\* C7: the record of identity i holds in its list field the values of the
\* rows of identity i, concatenated in row order and not deduplicated (for
\* the CSV-list field: each row's split tokens), in its set field the union
\* of those rows' values, and in its dict field the last value written per
\* key by those rows; no other row contributes.
C7_FoldsExactlyOwnRows ==
    m_pc = "done" =>
        \A j \in DOMAIN results :
            LET rec == results[j]
                part == RowsOf(rec.id)
            IN  /\ rec.list1 = Flatten([i \in DOMAIN part |-> part[i].list1])
                /\ rec.csv1 = Flatten([i \in DOMAIN part |->
                                  IF part[i].csv1 = Absent THEN <<>>
                                  ELSE Split(part[i].csv1, <<",">>)])
                /\ rec.set1 = UNION { Range(part[i].set1) : i \in DOMAIN part }
                /\ DOMAIN rec.dict1 =
                       UNION { Range(part[i].key1) : i \in DOMAIN part }
                /\ \A k \in DOMAIN rec.dict1 : rec.dict1[k] = LastWritten(part, k)

\* two identical rows of one identity around a row of another identity
C7_Witness ==
    /\ m_pc = "done"
    /\ \E i, j, k \in DOMAIN rows :
           /\ i < j /\ j < k
           /\ rows[i] = rows[k]
           /\ rows[i].csv1 # Absent
           /\ rows[j].id # rows[i].id

\* C8: map_records returns one record per distinct identity (none for no
\* rows), ordered by the position of the first row of each identity.
C8_OnePerIdentityFirstSeenOrder ==
    m_pc = "done" =>
        /\ Len(results) = Cardinality({ rows[i].id : i \in DOMAIN rows })
        /\ \A j \in DOMAIN results : \E i \in DOMAIN rows : rows[i].id = results[j].id
        /\ \A a, b \in DOMAIN results :
               a < b => FirstSeen(results[a].id) < FirstSeen(results[b].id)

\* a later row of the first identity comes after a row of the second
C8_Witness ==
    /\ m_pc = "done"
    /\ Len(results) = 2
    /\ \E i, j, k \in DOMAIN rows :
           /\ i < j /\ j < k
           /\ rows[i].id = results[1].id
           /\ rows[j].id = results[2].id
           /\ rows[k].id = results[1].id

====
